---- MODULE Spec2Model ----
(***************************************************************************)
(* Model of the WhatsApp + AI + Supabase system:                           *)
(*   - WhatsAppBot (src/src/whatsapp/bot.js): the chat adapter, its        *)
(*     fallback timer, its transport event callbacks, handleMessage,       *)
(*     processMessageWithAI, sendMessage and destroy;                      *)
(*   - WhatsAppAISystem (src/unnamed/part_000): the supervisor's entry     *)
(*     point, initialize, shutdown and the /health route.                  *)
(* Awaited external calls are split at the await: the call is invoked in   *)
(* one step and settles (resolves or rejects) in a later one, so that      *)
(* other callbacks interleave exactly where the event loop allows it.      *)
(* The callbacks that only log (qr, authenticated, loading_screen,         *)
(* auth_failure, error; bot.js 75-78, 99-106, 121-128) assign no field     *)
(* and are left out.  Rejections carry Error objects.                      *)
(***************************************************************************)
EXTENDS Naturals, Sequences, FiniteSets

\* ---------------------------------------------------------------- bounds
MaxInit == 2      \* calls of WhatsAppBot.initialize() on one adapter
MaxMsgs == 2      \* inbound 'message' events delivered to the adapter
MaxSends == 1     \* calls of WhatsAppBot.sendMessage()
MaxDestroy == 1   \* calls of WhatsAppBot.destroy() by a direct caller
MaxEntry == 2     \* evaluations of the entry module in one process
MaxSignals == 2   \* SIGINT/SIGTERM deliveries
MaxFairMsgs == 1  \* inbound 'message' events when every call terminates

\* ------------------------------------------------------- fixed reply texts
\* A text is [kind, about]: the fixed texts are about no message (0); the
\* text the AI agent produces is about the body it was given.
Text(kind, about) == [kind |-> kind, about |-> about]
NoText == Text("none", 0)                 \* no argument
EmptyText == Text("empty", 0)             \* "", null or undefined
NoticeText == Text("only_text", 0)        \* bot.js 150
FallbackText == Text("no_response", 0)    \* bot.js 169
ErrorApology == Text("error_apology", 0)  \* bot.js 176
UnavailableText == Text("unavailable", 0) \* bot.js 198
FormatErrorText == Text("format_error", 0) \* bot.js 209
AiApology == Text("ai_apology", 0)        \* bot.js 222

\* ------------------------------------------------------------ input sets
MsgTypes == {"chat", "image"}
\* The AI call throws, answers nothing usable (null, or an object whose
\* response is empty), or answers a text.
AiOutcomes == {"throw", "empty", "text"}
\* The formatter throws, returns nothing usable, returns the AI text
\* unchanged, or returns a text of its own made from it.
FormatOutcomes == {"throw", "empty", "same", "decorated"}
\* exitCode is <<>> while the process runs and <<code>> after process.exit.
NoExit == <<>>
Exit(code) == <<code>>

VARIABLES
    \* WhatsAppBot fields
    aiAgent,            \* this.aiAgent is set (TRUE) or null (FALSE)
    responseFormatter,  \* this.responseFormatter is set or null
    client,             \* this.client: 0 = null, else index into clients
    isReady,            \* this.isReady
    initTimeout,        \* this.initTimeout: 0 = null, else a timer id
    \* runtime objects the adapter creates
    armed,              \* timer ids set with setTimeout and still pending
    clients,            \* the transport clients created so far
    timerRuns,          \* how many times the fallback callback has run
    disconnected,       \* history, kept by the adapter's direct caller:
                        \* 'disconnected' was emitted and no 'ready' since
    msgs,               \* one record per 'message' callback invocation
    sends,              \* one record per sendMessage() call
    destroys,           \* one record per destroy() call
    \* process
    exitCode,           \* NoExit, or Exit(code) after process.exit(code)
    systemRunning,      \* global.systemRunning
    env,                \* the names defined in process.env
    evals,              \* how often the entry module has been evaluated
    \* WhatsAppAISystem
    sysPc,              \* where initialize() stands
    whatsappBot,        \* this.whatsappBot is set
    supabaseExecutor,   \* this.supabaseExecutor is set
    sysAiAgent,         \* this.aiAgent is set
    sysResponseFormatter, \* this.responseFormatter is set
    steps,              \* the startup steps performed, in order
    listening,          \* app.listen has been called
    lastError,          \* the error caught by initialize(), if any
    shutdowns,          \* one record per shutdown() call
    health              \* the last answer of GET /health

botVars == <<aiAgent, responseFormatter, client, isReady, initTimeout, armed,
             clients, timerRuns, disconnected>>
sysVars == <<systemRunning, env, evals, sysPc, whatsappBot, supabaseExecutor,
             sysAiAgent, sysResponseFormatter, steps, listening, lastError,
             shutdowns, health>>
vars == <<aiAgent, responseFormatter, client, isReady, initTimeout, armed,
          clients, timerRuns, disconnected, msgs, sends, destroys, exitCode, systemRunning,
          env, evals, sysPc, whatsappBot, supabaseExecutor, sysAiAgent,
          sysResponseFormatter, steps, listening, lastError, shutdowns, health>>

Alive == exitCode = NoExit

\* ============================================================ WhatsAppBot
\* A value is truthy in the JS sense; texts are the only values tested.
Truthy(s) == s # EmptyText

\* clearTimeout(id): the timer is no longer pending.
clearTimeout(t, a) == a \ {t}

\* new Client(...): a transport client with no callbacks yet.
NewClient == [listeners |-> 0, destroyCalls |-> 0, destroyed |-> FALSE]

\* setupEventHandlers(): one set of callbacks on the client.
setupEventHandlers(c) == [c EXCEPT !.listeners = @ + 1]

\* A client can emit events once it exists and until it is torn down.
Emitting(c) == c \in 1..Len(clients) /\ ~clients[c].destroyed

\* initialize() up to `await this.client.initialize()`; nothing follows the
\* await, so the settlement only matters to the caller.
InitializeCall ==
    /\ Alive
    /\ Len(clients) < MaxInit
    /\ LET id == Len(clients) + 1
           a1 == IF initTimeout # 0 THEN clearTimeout(initTimeout, armed)
                 ELSE armed
       IN  /\ clients' = Append(clients, setupEventHandlers(NewClient))
           /\ client' = id
           /\ initTimeout' = id
           /\ armed' = a1 \cup {id}
    /\ UNCHANGED <<aiAgent, responseFormatter, isReady, timerRuns,
                   disconnected>>

\* forceReady()
forceReady == TRUE

\* The callback with the forceReady() call lost.
TimerCallbackNoForce(ready) == ready

\* The value of isReady after the fallback callback has run.
TimerCallback(ready) == IF ~ready THEN forceReady ELSE ready

\* The fallback timer t expires and its callback runs.
TimerFire(t) ==
    /\ Alive
    /\ t \in armed
    /\ armed' = armed \ {t}
    /\ isReady' = TimerCallback(isReady)
    /\ timerRuns' = timerRuns + 1
    /\ UNCHANGED <<aiAgent, responseFormatter, client, initTimeout, clients,
                   disconnected>>

\* The 'ready' callback registered on client c.
EvReady(c) ==
    /\ Alive
    /\ Emitting(c)
    /\ IF initTimeout # 0
       THEN /\ armed' = clearTimeout(initTimeout, armed)
            /\ initTimeout' = 0
       ELSE UNCHANGED <<armed, initTimeout>>
    /\ isReady' = TRUE
    /\ UNCHANGED <<aiAgent, responseFormatter, client, clients, timerRuns>>

\* The 'disconnected' callback registered on client c.
EvDisconnected(c) ==
    /\ Alive
    /\ Emitting(c)
    /\ isReady' = FALSE
    /\ UNCHANGED <<aiAgent, responseFormatter, client, initTimeout, armed,
                   clients, timerRuns>>

\* ---------------------------------------------------------- handleMessage
\* The call log of one handler: entries [call, arg, st].
Invoke(m, call, arg, pc) ==
    [m EXCEPT !.log = Append(@, [call |-> call, arg |-> arg, st |-> "pending"]),
              !.pc = pc]

Settle(m, ok) ==
    [m EXCEPT !.log[Len(m.log)].st = IF ok THEN "ok" ELSE "fail"]

Return(m) == [m EXCEPT !.pc = "done", !.outcome = "resolved"]

\* The catch block with the apology reply lost.
CatchNoReply(m) == [m EXCEPT !.pc = "done", !.outcome = "resolved"]

\* The catch block of handleMessage: try to reply with the apology.
Catch(m) == Invoke(m, "reply", ErrorApology, "awaitErrReply")

\* The apology reply without its own try/catch.
ErrReplyRethrow(m) == [m EXCEPT !.pc = "done", !.outcome = "rejected"]

\* The inner catch around the apology reply: log only.
ErrReplyFailed(m) == Return(m)

\* processMessageWithAI without its try/catch.
PmRethrow == [status |-> "threw", value |-> EmptyText]

\* The catch block of processMessageWithAI.
PmCatch == [status |-> "returned", value |-> AiApology]

PmReturn(text) == [status |-> "returned", value |-> text]

\* handleMessage with the fallback test lost: whatever came back is sent.
RespondNoFallback(m, pm) ==
    LET m1 == [m EXCEPT !.pm = pm]
    IN  IF pm.status = "threw" THEN Catch(m1)
        ELSE Invoke(m1, "reply", pm.value, "awaitReply")

\* handleMessage after processMessageWithAI has settled with pm.
Respond(m, pm) ==
    LET m1 == [m EXCEPT !.pm = pm]
    IN  IF pm.status = "threw" THEN Catch(m1)
        ELSE IF Truthy(pm.value)
             THEN Invoke(m1, "reply", pm.value, "awaitReply")
             ELSE Invoke(m1, "reply", FallbackText, "awaitReply")

\* The answer taken from a slot all handlers share: it is about the
\* message delivered last.
AiTextShared(body) == Text("ai", Len(msgs))

\* The text the AI agent answers to a message body.
AiText(body) == Text("ai", body)

\* aiResponse?.response || fallback
ResponseOr(out, body, fallback) ==
    IF out = "text" THEN AiText(body) ELSE fallback

\* processMessageWithAI up to `await this.aiAgent.processMessage(...)`.
PmStart(m) ==
    IF ~aiAgent THEN Respond(m, PmReturn(UnavailableText))
    ELSE Invoke(m, "ai", Text("body", m.body), "awaitAI")

\* What responseFormatter.format(aiResponse) returns.
FormatOutput(out, body, fmt) ==
    IF fmt = "throw" THEN NoText
    ELSE IF fmt = "empty" THEN EmptyText
    ELSE IF fmt = "same" THEN ResponseOr(out, body, EmptyText)
    ELSE Text("formatted", body)

\* processMessageWithAI after the AI call settled with `out`; `fmt` is what
\* responseFormatter.format does if it is called.  The log entry of the
\* synchronous format call carries what the call returned.
PmAfterAI(m, out, fmt) ==
    IF out = "throw" THEN Respond(Settle(m, FALSE), PmCatch)
    ELSE LET m1 == Settle(m, TRUE)
         IN  IF ~responseFormatter
             THEN Respond(m1, PmReturn(ResponseOr(out, m.body, FormatErrorText)))
             ELSE LET T == FormatOutput(out, m.body, fmt)
                      m2 == Settle(Invoke(m1, "format", T, m1.pc), fmt # "throw")
                  IN  IF fmt = "throw" THEN Respond(m2, PmCatch)
                      ELSE Respond(m2, PmReturn(T))

\* handleMessage with the fromMe test lost.
handleMessageNoSelfCheck(fromMe, type, body) ==
    [fromMe |-> fromMe, type |-> type, body |-> body, pc |-> "awaitContact",
     log |-> <<[call |-> "getContact", arg |-> NoText, st |-> "pending"]>>,
     pm |-> [status |-> "none", value |-> EmptyText], outcome |-> "pending"]

\* handleMessage from its entry to the first await (or its return).
handleMessage(fromMe, type, body) ==
    LET m == [fromMe |-> fromMe, type |-> type, body |-> body,
              pc |-> "start", log |-> <<>>,
              pm |-> [status |-> "none", value |-> EmptyText],
              outcome |-> "pending"]
    IN  IF fromMe THEN Return(m)
        ELSE Invoke(m, "getContact", NoText, "awaitContact")

\* The contact lookup's continuation with the failure swallowed.
AfterContactSwallow(m, ok) ==
    IF ok THEN Invoke(Settle(m, TRUE), "getChat", NoText, "awaitChat")
    ELSE Return(Settle(m, FALSE))

AfterContact(m, ok) ==
    IF ok THEN Invoke(Settle(m, TRUE), "getChat", NoText, "awaitChat")
    ELSE Catch(Settle(m, FALSE))

\* The chat lookup's continuation with the type test lost.
AfterChatNoTypeCheck(m, ok) ==
    IF ~ok
    THEN [m EXCEPT !.log = Append([@ EXCEPT ![Len(@)].st = "fail"],
                       [call |-> "reply", arg |-> ErrorApology, st |-> "pending"]),
                   !.pc = "awaitErrReply"]
    ELSE [m EXCEPT !.log = Append([@ EXCEPT ![Len(@)].st = "ok"],
                       [call |-> "sendStateTyping", arg |-> NoText, st |-> "pending"]),
                   !.pc = "awaitTyping"]

AfterChat(m, ok) ==
    IF ~ok THEN Catch(Settle(m, FALSE))
    ELSE IF m.type # "chat"
         THEN Invoke(Settle(m, TRUE), "reply", NoticeText, "awaitNotice")
         ELSE Invoke(Settle(m, TRUE), "sendStateTyping", NoText, "awaitTyping")

AfterNotice(m, ok) ==
    IF ok THEN Return(Settle(m, TRUE)) ELSE Catch(Settle(m, FALSE))

AfterTyping(m, ok) ==
    IF ok THEN PmStart(Settle(m, TRUE)) ELSE Catch(Settle(m, FALSE))

AfterReply(m, ok) ==
    IF ok THEN Return(Settle(m, TRUE)) ELSE Catch(Settle(m, FALSE))

AfterErrReply(m, ok) ==
    IF ok THEN Return(Settle(m, TRUE)) ELSE ErrReplyFailed(Settle(m, FALSE))

\* The 'message' callback of client c: a new handleMessage starts.  The
\* n-th message delivered carries the body text number n.
EvMessage(c) ==
    /\ Alive
    /\ Emitting(c)
    /\ Len(msgs) < MaxMsgs
    /\ \E fromMe \in BOOLEAN, type \in MsgTypes :
          msgs' = Append(msgs, handleMessage(fromMe, type, Len(msgs) + 1))
    /\ UNCHANGED <<botVars, sends, destroys, exitCode, sysVars>>

\* The call handler i awaits settles, and the handler runs to its next await.
HandlerStep(i) ==
    /\ Alive
    /\ i \in 1..Len(msgs)
    /\ LET m == msgs[i] IN
       \/ /\ m.pc = "awaitContact"
          /\ \E ok \in BOOLEAN : msgs' = [msgs EXCEPT ![i] = AfterContact(m, ok)]
       \/ /\ m.pc = "awaitChat"
          /\ \E ok \in BOOLEAN : msgs' = [msgs EXCEPT ![i] = AfterChat(m, ok)]
       \/ /\ m.pc = "awaitNotice"
          /\ \E ok \in BOOLEAN : msgs' = [msgs EXCEPT ![i] = AfterNotice(m, ok)]
       \/ /\ m.pc = "awaitTyping"
          /\ \E ok \in BOOLEAN : msgs' = [msgs EXCEPT ![i] = AfterTyping(m, ok)]
       \/ /\ m.pc = "awaitAI"
          /\ \E out \in AiOutcomes, fmt \in FormatOutcomes :
                msgs' = [msgs EXCEPT ![i] = PmAfterAI(m, out, fmt)]
       \/ /\ m.pc = "awaitReply"
          /\ \E ok \in BOOLEAN : msgs' = [msgs EXCEPT ![i] = AfterReply(m, ok)]
       \/ /\ m.pc = "awaitErrReply"
          /\ \E ok \in BOOLEAN : msgs' = [msgs EXCEPT ![i] = AfterErrReply(m, ok)]
    /\ UNCHANGED <<botVars, sends, destroys, exitCode, sysVars>>

\* ------------------------------------------------------------ sendMessage
Suffix == "@c.us"
Numbers == {<<"5511999">>, <<"5511999", Suffix>>}

\* number.includes('@c.us')
Includes(number, tok) == \E k \in 1..Len(number) : number[k] = tok

\* number.includes('@c.us') ? number : `${number}@c.us`
ChatId(number) == IF Includes(number, Suffix) THEN number
                  ELSE Append(number, Suffix)

\* sendMessage with the readiness guard lost.
sendMessageNoGuard(number, ready, cl) ==
    IF cl = 0
    THEN [number |-> number, readyAtCall |-> ready, hadClient |-> cl # 0,
          invoked |-> FALSE, chatId |-> <<>>, pc |-> "done", result |-> "false"]
    ELSE [number |-> number, readyAtCall |-> ready, hadClient |-> cl # 0,
          invoked |-> TRUE, chatId |-> ChatId(number), pc |-> "awaitSend",
          result |-> "none"]

\* sendMessage(number, message) from its entry to the await of
\* client.sendMessage, or to `return false` when the guard throws.
sendMessage(number, ready, cl) ==
    IF ~ready \/ cl = 0
    THEN [number |-> number, readyAtCall |-> ready, hadClient |-> cl # 0,
          invoked |-> FALSE, chatId |-> <<>>, pc |-> "done", result |-> "false"]
    ELSE [number |-> number, readyAtCall |-> ready, hadClient |-> cl # 0,
          invoked |-> TRUE, chatId |-> ChatId(number), pc |-> "awaitSend",
          result |-> "none"]

\* sendMessage after client.sendMessage settled.
AfterSend(s, ok) ==
    [s EXCEPT !.pc = "done", !.result = IF ok THEN "true" ELSE "false"]

SendCall ==
    /\ Alive
    /\ Len(sends) < MaxSends
    /\ \E number \in Numbers :
          sends' = Append(sends, sendMessage(number, isReady, client))
    /\ UNCHANGED <<botVars, msgs, destroys, exitCode, sysVars>>

SendSettle(i) ==
    /\ Alive
    /\ i \in 1..Len(sends)
    /\ sends[i].pc = "awaitSend"
    /\ \E ok \in BOOLEAN : sends' = [sends EXCEPT ![i] = AfterSend(sends[i], ok)]
    /\ UNCHANGED <<botVars, msgs, destroys, exitCode, sysVars>>

\* ---------------------------------------------------------------- destroy
\* destroy() with the clearTimeout lost.
DestroyTimersKeep(t, a) == a

\* The timers pending after destroy() has run its first statement.
DestroyTimers(t, a) == IF t # 0 THEN clearTimeout(t, a) ELSE a

\* destroy() from its entry to the await of client.destroy(), or to its
\* return when there is no client.
DestroyCall ==
    /\ Alive
    /\ armed' = DestroyTimers(initTimeout, armed)
    /\ IF client # 0
       THEN /\ clients' = [clients EXCEPT ![client].destroyCalls = @ + 1]
            /\ destroys' = Append(destroys,
                   [target |-> client, pc |-> "awaitDestroy",
                    outcome |-> "pending", timerPending |-> armed # {}])
       ELSE /\ clients' = clients
            /\ destroys' = Append(destroys,
                   [target |-> 0, pc |-> "done", outcome |-> "resolved",
                    timerPending |-> armed # {}])
    /\ UNCHANGED <<aiAgent, responseFormatter, client, isReady, initTimeout,
                   timerRuns, disconnected>>

\* client.destroy() settles: the session is torn down, or the call rejects
\* and destroy() rejects with it.
DestroySettle(i, ok) ==
    /\ Alive
    /\ i \in 1..Len(destroys)
    /\ destroys[i].pc = "awaitDestroy"
    /\ destroys' = [destroys EXCEPT ![i].pc = "done",
                        ![i].outcome = IF ok THEN "resolved" ELSE "rejected"]
    /\ clients' = IF ok
                  THEN [clients EXCEPT ![destroys[i].target].destroyed = TRUE]
                  ELSE clients
    /\ UNCHANGED <<aiAgent, responseFormatter, client, isReady, initTimeout,
                   armed, timerRuns, disconnected>>

\* ======================================================= WhatsAppAISystem
\* const required = [...]
Required == <<"OPENAI_API_KEY", "SUPABASE_URL", "SUPABASE_KEY">>
RequiredSet == {Required[k] : k \in 1..Len(Required)}

\* The constructors with the executor built before the formatter.
ComponentsSwapped == <<"SupabaseExecutor", "ResponseFormatter",
                       "MultiAgentSystem", "WhatsAppBot">>

\* The startup steps, in the order initialize() performs them.
Components == <<"ResponseFormatter", "SupabaseExecutor", "MultiAgentSystem",
                "WhatsAppBot">>

NoError == [kind |-> "none", missing |-> <<>>]
\* An HTTP answer: the route served, the JSON fields of the answer, and the
\* collaborators' flags as the handler read them.
NoHealth == [route |-> "none", status |-> "none", whatsapp |-> FALSE,
             supabase |-> FALSE, ai |-> FALSE, isConnected |-> "undefined",
             aiIsReady |-> "undefined"]

\* The process before the entry module is evaluated.
SystemNotLoaded ==
    /\ systemRunning = FALSE
    /\ evals = 0
    /\ sysPc = "unloaded"
    /\ whatsappBot = FALSE
    /\ supabaseExecutor = FALSE
    /\ sysAiAgent = FALSE
    /\ sysResponseFormatter = FALSE
    /\ steps = <<>>
    /\ listening = FALSE
    /\ lastError = NoError
    /\ shutdowns = <<>>
    /\ health = NoHealth

\* required.filter(v => !process.env[v])
MissingOnlyFirst(e) == SelectSeq(Required, LAMBDA v : v = Required[1] /\ v \notin e)

Missing(e) == SelectSeq(Required, LAMBDA v : v \notin e)

\* The catch block of initialize(): the guard is cleared, the process exits.
StartupFailure(kind, missing) ==
    /\ lastError' = [kind |-> kind, missing |-> missing]
    /\ systemRunning' = FALSE
    /\ exitCode' = Exit(1)

\* new WhatsAppBot(aiAgent, responseFormatter): the adapter's constructor.
ConstructBot(agent, formatter) ==
    /\ aiAgent' = agent
    /\ responseFormatter' = formatter
    /\ client' = 0
    /\ isReady' = FALSE
    /\ initTimeout' = 0

\* initialize() from its entry to `await supabaseExecutor.testConnection()`.
\* failAt = k: the k-th constructor throws (0: none does).
SystemInitialize(failAt) ==
    LET miss == Missing(env)
        built == IF failAt = 0 THEN Len(Components) ELSE failAt - 1
    IN  IF Len(miss) > 0
        THEN /\ StartupFailure("config", miss)
             /\ UNCHANGED <<sysPc, whatsappBot, supabaseExecutor, sysAiAgent,
                            sysResponseFormatter, steps, aiAgent,
                            responseFormatter, client, isReady, initTimeout>>
        ELSE /\ sysResponseFormatter' = (built >= 1)
             /\ supabaseExecutor' = (built >= 2)
             /\ sysAiAgent' = (built >= 3)
             /\ whatsappBot' = (built >= 4)
             /\ IF built >= 4
                THEN ConstructBot(sysAiAgent', sysResponseFormatter')
                ELSE UNCHANGED <<aiAgent, responseFormatter, client, isReady,
                                 initTimeout>>
             /\ IF failAt # 0
                THEN /\ StartupFailure("constructor", <<>>)
                     /\ steps' = SubSeq(Components, 1, built)
                     /\ UNCHANGED sysPc
                ELSE /\ steps' = Append(Components, "testConnection")
                     /\ sysPc' = "awaitConnect"
                     /\ systemRunning' = TRUE
                     /\ UNCHANGED <<lastError, exitCode>>

\* The guard with its test lost: the module always goes on.
GuardIgnored == FALSE

\* if (global.systemRunning)
GuardSet == systemRunning

\* The entry module is evaluated: the guard, the construction of the system,
\* the signal handlers and the call of system.initialize().
EntryPoint ==
    /\ Alive
    /\ evals < MaxEntry
    /\ evals' = evals + 1
    /\ IF GuardSet
       THEN /\ exitCode' = Exit(0)
            /\ UNCHANGED <<botVars, systemRunning, sysPc, whatsappBot,
                           supabaseExecutor, sysAiAgent, sysResponseFormatter,
                           steps, lastError>>
       ELSE /\ \E failAt \in 0..Len(Components) : SystemInitialize(failAt)
            /\ UNCHANGED <<armed, clients, timerRuns, disconnected>>
    /\ UNCHANGED <<env, listening, shutdowns, health, msgs, sends, destroys>>

\* testConnection() settles: initialize() goes on to whatsappBot.initialize()
\* or to its catch block.
ConnectSettle(ok) ==
    /\ Alive
    /\ sysPc = "awaitConnect"
    /\ IF ok
       THEN /\ InitializeCall
            /\ steps' = Append(steps, "whatsappBot.initialize")
            /\ sysPc' = "awaitBotInit"
            /\ UNCHANGED <<lastError, systemRunning, exitCode>>
       ELSE /\ StartupFailure("testConnection", <<>>)
            /\ sysPc' = "failed"
            /\ UNCHANGED <<botVars, steps>>
    /\ UNCHANGED <<env, evals, whatsappBot, supabaseExecutor, sysAiAgent,
                   sysResponseFormatter, listening, shutdowns, health, msgs,
                   sends, destroys>>

\* whatsappBot.initialize() settles: initialize() binds the listener or goes
\* to its catch block.
BotInitSettle(ok) ==
    /\ Alive
    /\ sysPc = "awaitBotInit"
    /\ IF ok
       THEN /\ listening' = TRUE
            /\ steps' = Append(steps, "listen")
            /\ sysPc' = "running"
            /\ UNCHANGED <<lastError, systemRunning, exitCode>>
       ELSE /\ StartupFailure("whatsappBot.initialize", <<>>)
            /\ sysPc' = "failed"
            /\ UNCHANGED <<listening, steps>>
    /\ UNCHANGED <<botVars, env, evals, whatsappBot, supabaseExecutor,
                   sysAiAgent, sysResponseFormatter, shutdowns, health, msgs,
                   sends, destroys>>

\* SIGINT or SIGTERM: shutdown() from its entry to the await of
\* whatsappBot.destroy(), or to process.exit(0) when that returns at once.
Signal ==
    /\ Alive
    /\ sysPc # "unloaded"
    /\ Len(shutdowns) < MaxSignals
    /\ IF whatsappBot
       THEN /\ DestroyCall
            /\ IF client # 0
               THEN /\ shutdowns' = Append(shutdowns,
                           [pc |-> "awaitDestroy", destroy |-> Len(destroys) + 1])
                    /\ UNCHANGED <<systemRunning, exitCode>>
               ELSE /\ shutdowns' = Append(shutdowns,
                           [pc |-> "done", destroy |-> Len(destroys) + 1])
                    /\ systemRunning' = FALSE
                    /\ exitCode' = Exit(0)
       ELSE /\ shutdowns' = Append(shutdowns, [pc |-> "done", destroy |-> 0])
            /\ systemRunning' = FALSE
            /\ exitCode' = Exit(0)
            /\ UNCHANGED <<botVars, destroys>>
    /\ UNCHANGED <<env, evals, sysPc, whatsappBot, supabaseExecutor, sysAiAgent,
                   sysResponseFormatter, steps, listening, lastError, health,
                   msgs, sends>>

\* whatsappBot.destroy() settles for shutdown call i: the guard is cleared
\* when it resolved, the error is logged when it rejected, and the process
\* exits with code 0.
ShutdownSettle(i, ok) ==
    /\ Alive
    /\ i \in 1..Len(shutdowns)
    /\ shutdowns[i].pc = "awaitDestroy"
    /\ DestroySettle(shutdowns[i].destroy, ok)
    /\ shutdowns' = [shutdowns EXCEPT ![i].pc = "done"]
    /\ systemRunning' = IF ok THEN FALSE ELSE systemRunning
    /\ exitCode' = Exit(0)
    /\ UNCHANGED <<env, evals, sysPc, whatsappBot, supabaseExecutor, sysAiAgent,
                   sysResponseFormatter, steps, listening, lastError, health,
                   msgs, sends>>

\* A collaborator's flag is unset, false or true when it is read.
FlagValues == {"undefined", "false", "true"}

\* x || false
OrFalse(x) == x = "true"

\* The /health handler without optional chaining: reading a flag of an
\* absent component throws, and the request is answered with an error.
HealthNoOptionalChaining(ec, ar) ==
    [route |-> "/health",
     status |-> IF whatsappBot /\ supabaseExecutor /\ sysAiAgent
                THEN "healthy" ELSE "error",
     whatsapp |-> whatsappBot /\ isReady,
     supabase |-> supabaseExecutor /\ OrFalse(ec),
     ai |-> sysAiAgent /\ OrFalse(ar),
     isConnected |-> ec,
     aiIsReady |-> ar]

\* GET /health; ec and ar are supabaseExecutor.isConnected and
\* aiAgent.isReady as the collaborators hold them when the request is served.
Health(ec, ar) ==
    [route |-> "/health",
     status |-> "healthy",
     whatsapp |-> IF whatsappBot THEN isReady ELSE FALSE,
     supabase |-> IF supabaseExecutor THEN OrFalse(ec) ELSE FALSE,
     ai |-> IF sysAiAgent THEN OrFalse(ar) ELSE FALSE,
     isConnected |-> ec,
     aiIsReady |-> ar]

\* GET /
Root == [NoHealth EXCEPT !.route = "/", !.status = "running"]

ServeHealth == \E ec \in FlagValues, ar \in FlagValues : health' = Health(ec, ar)

HealthRequest ==
    /\ Alive
    /\ listening
    /\ ServeHealth
    /\ UNCHANGED <<botVars, msgs, sends, destroys, exitCode, systemRunning, env,
                   evals, sysPc, whatsappBot, supabaseExecutor, sysAiAgent,
                   sysResponseFormatter, steps, listening, lastError, shutdowns>>

RootRequest ==
    /\ Alive
    /\ listening
    /\ health' = Root
    /\ UNCHANGED <<botVars, msgs, sends, destroys, exitCode, systemRunning, env,
                   evals, sysPc, whatsappBot, supabaseExecutor, sysAiAgent,
                   sysResponseFormatter, steps, listening, lastError, shutdowns>>

\* ----------------------------------------------------------- the process
\* A fresh process: nothing is constructed, the environment is any subset of
\* the required names.
Init ==
    /\ aiAgent = FALSE
    /\ responseFormatter = FALSE
    /\ client = 0
    /\ isReady = FALSE
    /\ initTimeout = 0
    /\ armed = {}
    /\ clients = <<>>
    /\ timerRuns = 0
    /\ disconnected = FALSE
    /\ msgs = <<>>
    /\ sends = <<>>
    /\ destroys = <<>>
    /\ exitCode = NoExit
    /\ env \in SUBSET RequiredSet
    /\ SystemNotLoaded

SysConnectSettle == \E ok \in BOOLEAN : ConnectSettle(ok)

SysBotInitSettle == \E ok \in BOOLEAN : BotInitSettle(ok)

SysShutdownSettle ==
    \E i \in 1..Len(shutdowns), ok \in BOOLEAN : ShutdownSettle(i, ok)

SysTimerFire ==
    /\ \E t \in armed : TimerFire(t)
    /\ UNCHANGED <<msgs, sends, destroys, exitCode, sysVars>>

SysReady ==
    /\ \E c \in 1..Len(clients) : EvReady(c)
    /\ UNCHANGED <<disconnected, msgs, sends, destroys, exitCode, sysVars>>

SysDisconnected ==
    /\ \E c \in 1..Len(clients) : EvDisconnected(c)
    /\ UNCHANGED <<disconnected, msgs, sends, destroys, exitCode, sysVars>>

\* Message handling assigns no field of the adapter or of the system and is
\* stepped under SpecMsg.
Next ==
    \/ EntryPoint
    \/ SysConnectSettle
    \/ SysBotInitSettle
    \/ Signal
    \/ SysShutdownSettle
    \/ HealthRequest
    \/ RootRequest
    \/ SysTimerFire
    \/ SysReady
    \/ SysDisconnected

Spec == Init /\ [][Next]_vars

\* ------------------------------------------------ the routes as functions
\* The route handlers read the system's fields whenever they are called.
\* The system is taken with any prefix of its components constructed (as
\* initialize() leaves it at a throwing constructor, or completes it), and
\* the adapter, when constructed, moves through its readiness states.
InitHealth ==
    /\ \E built \in 0..Len(Components) :
          /\ sysResponseFormatter = (built >= 1)
          /\ supabaseExecutor = (built >= 2)
          /\ sysAiAgent = (built >= 3)
          /\ whatsappBot = (built >= 4)
          /\ aiAgent = (built >= 4)
          /\ responseFormatter = (built >= 4)
          /\ steps = SubSeq(Components, 1, built)
    /\ client = 0
    /\ isReady = FALSE
    /\ initTimeout = 0
    /\ armed = {}
    /\ clients = <<>>
    /\ timerRuns = 0
    /\ disconnected = FALSE
    /\ msgs = <<>>
    /\ sends = <<>>
    /\ destroys = <<>>
    /\ exitCode = NoExit
    /\ env = RequiredSet
    /\ systemRunning = TRUE
    /\ evals = 1
    /\ sysPc = "constructing"
    /\ listening = FALSE
    /\ lastError = NoError
    /\ shutdowns = <<>>
    /\ health = NoHealth

HealthCall ==
    /\ ServeHealth
    /\ UNCHANGED <<botVars, msgs, sends, destroys, exitCode, systemRunning, env,
                   evals, sysPc, whatsappBot, supabaseExecutor, sysAiAgent,
                   sysResponseFormatter, steps, listening, lastError, shutdowns>>

RootCall ==
    /\ health' = Root
    /\ UNCHANGED <<botVars, msgs, sends, destroys, exitCode, systemRunning, env,
                   evals, sysPc, whatsappBot, supabaseExecutor, sysAiAgent,
                   sysResponseFormatter, steps, listening, lastError, shutdowns>>

HealthInitialize ==
    /\ whatsappBot
    /\ client = 0
    /\ InitializeCall
    /\ UNCHANGED <<msgs, sends, destroys, exitCode, sysVars>>

HealthTimerFire ==
    /\ \E t \in armed : TimerFire(t)
    /\ UNCHANGED <<msgs, sends, destroys, exitCode, sysVars>>

HealthReady ==
    /\ \E c \in 1..Len(clients) : EvReady(c)
    /\ UNCHANGED <<disconnected, msgs, sends, destroys, exitCode, sysVars>>

HealthDisconnected ==
    /\ \E c \in 1..Len(clients) : EvDisconnected(c)
    /\ UNCHANGED <<disconnected, msgs, sends, destroys, exitCode, sysVars>>

NextHealth ==
    \/ HealthCall
    \/ RootCall
    \/ HealthInitialize
    \/ HealthTimerFire
    \/ HealthReady
    \/ HealthDisconnected

SpecHealth == InitHealth /\ [][NextHealth]_vars

\* ------------------------------------------- adapter under message traffic
\* The adapter as any caller may construct it, initialized once.
InitBot ==
    /\ aiAgent \in BOOLEAN
    /\ responseFormatter \in BOOLEAN
    /\ client = 0
    /\ isReady = FALSE
    /\ initTimeout = 0
    /\ armed = {}
    /\ clients = <<>>
    /\ timerRuns = 0
    /\ disconnected = FALSE
    /\ msgs = <<>>
    /\ sends = <<>>
    /\ destroys = <<>>
    /\ exitCode = NoExit
    /\ env = RequiredSet
    /\ SystemNotLoaded

MsgInitialize ==
    /\ client = 0
    /\ InitializeCall
    /\ UNCHANGED <<msgs, sends, destroys, exitCode, sysVars>>

MsgReady ==
    /\ \E c \in 1..Len(clients) : EvReady(c)
    /\ UNCHANGED <<disconnected, msgs, sends, destroys, exitCode, sysVars>>

MsgDisconnected ==
    /\ \E c \in 1..Len(clients) : EvDisconnected(c)
    /\ UNCHANGED <<disconnected, msgs, sends, destroys, exitCode, sysVars>>

MsgArrive == \E c \in 1..Len(clients) : EvMessage(c)

MsgStep == \E i \in 1..Len(msgs) : HandlerStep(i)

NextMsg ==
    \/ MsgInitialize
    \/ MsgReady
    \/ MsgDisconnected
    \/ MsgArrive
    \/ MsgStep

SpecMsg == InitBot /\ [][NextMsg]_vars

\* The same adapter when every external call a handler awaits terminates:
\* the handler's pending call settles and the event loop runs its
\* continuation.
FairArrive ==
    /\ Len(msgs) < MaxFairMsgs
    /\ MsgArrive

NextMsgFair ==
    \/ MsgInitialize
    \/ MsgReady
    \/ MsgDisconnected
    \/ FairArrive
    \/ MsgStep

SpecMsgFair ==
    /\ InitBot
    /\ [][NextMsgFair]_vars
    /\ \A i \in 1..MaxFairMsgs : WF_vars(HandlerStep(i))

\* ------------------------------------------------ adapter under its caller
\* A caller that drives the adapter's public methods: it may initialize the
\* adapter again, sends while the adapter is in any state, and tears the
\* adapter down last (as shutdown does, part_000 114-129).
BotInitialize ==
    /\ destroys = <<>>
    /\ InitializeCall
    /\ UNCHANGED <<msgs, sends, destroys, exitCode, sysVars>>

BotTimerFire ==
    /\ \E t \in armed : TimerFire(t)
    /\ UNCHANGED <<msgs, sends, destroys, exitCode, sysVars>>

BotReady ==
    /\ \E c \in 1..Len(clients) : EvReady(c)
    /\ disconnected' = FALSE
    /\ UNCHANGED <<msgs, sends, destroys, exitCode, sysVars>>

BotDisconnected ==
    /\ \E c \in 1..Len(clients) : EvDisconnected(c)
    /\ disconnected' = TRUE
    /\ UNCHANGED <<msgs, sends, destroys, exitCode, sysVars>>

BotSend == SendCall

BotSendSettle == \E i \in 1..Len(sends) : SendSettle(i)

BotDestroy ==
    /\ Len(destroys) < MaxDestroy
    /\ DestroyCall
    /\ UNCHANGED <<msgs, sends, exitCode, sysVars>>

BotDestroySettle ==
    /\ \E i \in 1..Len(destroys), ok \in BOOLEAN : DestroySettle(i, ok)
    /\ UNCHANGED <<msgs, sends, exitCode, sysVars>>

NextBot ==
    \/ BotInitialize
    \/ BotTimerFire
    \/ BotReady
    \/ BotDisconnected
    \/ BotSend
    \/ BotSendSettle
    \/ BotDestroy
    \/ BotDestroySettle

SpecBot == InitBot /\ [][NextBot]_vars

\* The event loop runs every pending timer callback.
SpecBotFair == SpecBot /\ WF_vars(BotTimerFire)

\* ================================================================= claims
Calls(m, call) == SelectSeq(m.log, LAMBDA e : e.call = call)
Replies(m) == Calls(m, "reply")
Done(m) == m.pc = "done"
LookupsOk(m) ==
    /\ Calls(m, "getContact") # <<>> /\ Calls(m, "getContact")[1].st = "ok"
    /\ Calls(m, "getChat") # <<>> /\ Calls(m, "getChat")[1].st = "ok"
LookupFailed(m) ==
    \E k \in 1..Len(m.log) :
        m.log[k].call \in {"getContact", "getChat"} /\ m.log[k].st = "fail"
NonText(m) == ~m.fromMe /\ m.type # "chat"

\* C1 as stated: every finished handler of a non-self, non-text message has
\* replied with the notice first and has made no AI call, whatever the
\* lookups did.
C1_AsStated ==
    \A i \in 1..Len(msgs) :
        (NonText(msgs[i]) /\ Done(msgs[i])) =>
            /\ Replies(msgs[i]) # <<>>
            /\ Replies(msgs[i])[1].arg = NoticeText
            /\ Calls(msgs[i], "ai") = <<>>

\* C1 amended: a non-self, non-text message never reaches the AI agent nor
\* the typing indicator; once both lookups have succeeded its first reply is
\* the notice, and when a lookup failed its only reply is the error apology.
C1_NonTextNotice ==
    \A i \in 1..Len(msgs) :
        NonText(msgs[i]) =>
            /\ Calls(msgs[i], "ai") = <<>>
            /\ Calls(msgs[i], "sendStateTyping") = <<>>
            /\ msgs[i].pm.status = "none"
            /\ LookupsOk(msgs[i]) =>
                  /\ Replies(msgs[i]) # <<>>
                  /\ Replies(msgs[i])[1].arg = NoticeText
            /\ LookupFailed(msgs[i]) =>
                  /\ Len(Replies(msgs[i])) = 1
                  /\ Replies(msgs[i])[1].arg = ErrorApology

C1_Witness ==
    \E i \in 1..Len(msgs) :
        /\ NonText(msgs[i]) /\ Done(msgs[i]) /\ LookupsOk(msgs[i])
        /\ Replies(msgs[i]) = <<[call |-> "reply", arg |-> NoticeText, st |-> "ok"]>>

\* C2: a self-authored message makes the handler return at once: no lookup,
\* no typing indicator, no AI call, no reply, for every type and whatever the
\* ready flag is.
C2_SelfIgnored ==
    \A i \in 1..Len(msgs) :
        msgs[i].fromMe =>
            /\ msgs[i].log = <<>>
            /\ msgs[i].pm.status = "none"
            /\ Done(msgs[i])
            /\ msgs[i].outcome = "resolved"

C2_Witness ==
    /\ Len(msgs) = 2
    /\ msgs[1].fromMe /\ msgs[1].type = "chat"
    /\ msgs[2].fromMe /\ msgs[2].type = "image"
    /\ isReady

\* C3: a sendMessage call made while the ready flag is false returns false
\* at once and never invokes client.sendMessage.
C3_SendNotReady ==
    \A i \in 1..Len(sends) :
        ~sends[i].readyAtCall =>
            /\ sends[i].pc = "done"
            /\ sends[i].result = "false"
            /\ ~sends[i].invoked

C3_Witness ==
    \E i \in 1..Len(sends) :
        /\ ~sends[i].readyAtCall
        /\ sends[i].hadClient
        /\ sends[i].result = "false"

\* C4: processMessageWithAI always returns: the unavailability text, with no
\* AI or formatter call, when the agent is unset; the apology when the AI
\* call or the formatter throws.
C4_PmNeverThrows ==
    \A i \in 1..Len(msgs) :
        LET m == msgs[i] IN
        /\ m.pm.status \in {"none", "returned"}
        /\ (m.pm.status = "returned" /\ ~aiAgent) =>
              /\ m.pm.value = UnavailableText
              /\ Calls(m, "ai") = <<>>
              /\ Calls(m, "format") = <<>>
        /\ (\E k \in 1..Len(m.log) :
               m.log[k].call \in {"ai", "format"} /\ m.log[k].st = "fail") =>
              /\ m.pm.status = "returned"
              /\ m.pm.value = AiApology

C4_Witness ==
    \E i \in 1..Len(msgs) :
        /\ Calls(msgs[i], "format") # <<>>
        /\ Calls(msgs[i], "format")[1].st = "fail"
        /\ msgs[i].pm = [status |-> "returned", value |-> AiApology]

\* C5: the promise of handleMessage never rejects, and a finished handler
\* has resolved.
C5_HandlerResolves ==
    \A i \in 1..Len(msgs) :
        /\ msgs[i].outcome # "rejected"
        /\ Done(msgs[i]) => msgs[i].outcome = "resolved"

C5_Witness ==
    \E i \in 1..Len(msgs) :
        /\ Done(msgs[i])
        /\ msgs[i].outcome = "resolved"
        /\ msgs[i].log # <<>>
        /\ msgs[i].log[Len(msgs[i].log)] =
               [call |-> "reply", arg |-> ErrorApology, st |-> "fail"]
        /\ Len(Replies(msgs[i])) = 2

\* C6 as stated: after a failed reply the handler makes no further reply
\* attempt.
C6_AsStated ==
    \A i \in 1..Len(msgs) :
        \A k \in 1..Len(msgs[i].log) :
            (msgs[i].log[k].call = "reply" /\ msgs[i].log[k].st = "fail") =>
                \A j \in (k + 1)..Len(msgs[i].log) : msgs[i].log[j].call # "reply"

\* C6 amended: a failed reply of the notice, the response or the fallback is
\* followed by one attempt to reply with the error apology and nothing else;
\* a failed apology reply is followed by nothing; a message sees at most two
\* reply attempts and no text is sent twice.
C6_ReplyFailure ==
    \A i \in 1..Len(msgs) :
        LET log == msgs[i].log IN
        /\ Len(Replies(msgs[i])) <= 2
        /\ \A k \in 1..Len(log) :
              (log[k].call = "reply" /\ log[k].st = "fail") =>
                  IF log[k].arg = ErrorApology
                  THEN k = Len(log) /\ Done(msgs[i])
                  ELSE /\ Len(log) = k + 1
                       /\ log[k + 1].call = "reply"
                       /\ log[k + 1].arg = ErrorApology

C6_Witness ==
    \E i \in 1..Len(msgs) :
        /\ Done(msgs[i])
        /\ Len(Replies(msgs[i])) = 2
        /\ Replies(msgs[i])[1] = [call |-> "reply", arg |-> NoticeText, st |-> "fail"]
        /\ Replies(msgs[i])[2].st = "fail"

\* C7: once the fallback timer is armed it is eventually disarmed, and then
\* the flag is true unless a 'ready' callback cleared the timer (initTimeout
\* reset to null) or destroy() was called; and a run of the timer callback
\* always leaves the flag true, so it changes it only when it was false.
C7_FallbackReady ==
    /\ [](armed # {} =>
            <>(armed = {} /\ (isReady \/ initTimeout = 0 \/ destroys # <<>>)))
    /\ [][timerRuns' # timerRuns => isReady']_vars

C7_Witness ==
    /\ timerRuns = 1
    /\ isReady
    /\ initTimeout # 0
    /\ armed = {}
    /\ destroys = <<>>

\* C8: once destroy() has been called no timer is pending and the timer
\* callback never runs again; destroy() invokes client.destroy() on the
\* current client when there is one, and on nothing when there is none.
SumDestroyCalls ==
    Cardinality({<<c, n>> \in (1..Len(clients)) \X (1..MaxDestroy + 1) :
                    n <= clients[c].destroyCalls})

C8_DestroyCancels ==
    /\ [](destroys # <<>> => armed = {})
    /\ [][destroys # <<>> => timerRuns' = timerRuns]_vars
    /\ [](\A i \in 1..Len(destroys) :
             /\ destroys[i].target = client
             /\ (destroys[i].target = 0) <=> (clients = <<>>))
    /\ [](SumDestroyCalls = IF clients = <<>> THEN 0 ELSE Len(destroys))

C8_Witness ==
    /\ destroys # <<>>
    /\ destroys[1].timerPending
    /\ destroys[1].target # 0
    /\ destroys[1].pc = "done"
    /\ ~isReady

\* C9 as stated: however often initialize() has been called there is one
\* transport client that emits events, with one set of callbacks, and one
\* pending timer.
LiveClients == {c \in 1..Len(clients) : ~clients[c].destroyed}

C9_AsStated ==
    (clients # <<>> /\ destroys = <<>>) =>
        /\ Cardinality(LiveClients) = 1
        /\ \A c \in LiveClients : clients[c].listeners = 1
        /\ Cardinality(armed) <= 1

\* C10: when a required name is unset, the first evaluation of the entry
\* point constructs nothing, performs no startup step, reports exactly the
\* unset names, clears the guard and exits with code 1; and whatever error
\* initialize() caught, the guard is clear and the exit code is 1.
C10_ConfigFailFast ==
    /\ (evals > 0 /\ RequiredSet \ env # {}) =>
          /\ exitCode = Exit(1)
          /\ ~systemRunning
          /\ ~whatsappBot /\ ~supabaseExecutor /\ ~sysAiAgent
          /\ ~sysResponseFormatter
          /\ steps = <<>>
          /\ clients = <<>>
          /\ lastError.kind = "config"
          /\ {lastError.missing[k] : k \in 1..Len(lastError.missing)} =
                 RequiredSet \ env
          /\ Len(lastError.missing) = Cardinality(RequiredSet \ env)
    /\ lastError.kind # "none" => (exitCode = Exit(1) /\ ~systemRunning)

C10_Witness ==
    /\ env = RequiredSet \ {"SUPABASE_KEY"}
    /\ exitCode = Exit(1)
    /\ lastError = [kind |-> "config", missing |-> <<"SUPABASE_KEY">>]

\* C11: the startup steps performed so far are always a prefix of
\* Formatter, Backend Executor, AI Agent, Chat Bot Adapter, connectivity
\* check, adapter initialize, listen; a component exists only if those
\* before it do; and the listener is bound only when every step before it
\* has been performed and has resolved, never after a startup error.
ExpectedOrder == <<"ResponseFormatter", "SupabaseExecutor", "MultiAgentSystem",
                   "WhatsAppBot", "testConnection", "whatsappBot.initialize",
                   "listen">>

C11_StartupOrder ==
    /\ Len(steps) <= Len(ExpectedOrder)
    /\ \A k \in 1..Len(steps) : steps[k] = ExpectedOrder[k]
    /\ whatsappBot => sysAiAgent
    /\ sysAiAgent => supabaseExecutor
    /\ supabaseExecutor => sysResponseFormatter
    /\ (Len(steps) >= 4) <=> whatsappBot
    /\ (Len(steps) >= 6) <=> (clients # <<>>)
    /\ listening <=> (steps = ExpectedOrder)
    /\ listening => (sysPc = "running" /\ lastError.kind = "none" /\ client # 0)
    /\ lastError.kind # "none" => ~listening

C11_Witness ==
    /\ listening
    /\ steps = ExpectedOrder
    /\ Alive

\* C12: every answer of GET /health has status 'healthy' and three
\* booleans: whatsapp is the adapter's isReady when the adapter exists,
\* supabase is the executor's isConnected flag when the executor exists,
\* ai is the agent's isReady flag when the agent exists (an unset flag
\* counts as false), and each is false when its component is absent.
C12_HealthAnswer ==
    [][health'.route = "/health" /\ health' # health =>
          /\ health'.status = "healthy"
          /\ health'.whatsapp \in BOOLEAN
          /\ health'.supabase \in BOOLEAN
          /\ health'.ai \in BOOLEAN
          /\ whatsappBot => (health'.whatsapp <=> isReady)
          /\ supabaseExecutor =>
                (health'.supabase <=> (health'.isConnected = "true"))
          /\ sysAiAgent => (health'.ai <=> (health'.aiIsReady = "true"))
          /\ ~whatsappBot => ~health'.whatsapp
          /\ ~supabaseExecutor => ~health'.supabase
          /\ ~sysAiAgent => ~health'.ai]_vars

C12_Witness ==
    /\ ~sysResponseFormatter /\ ~supabaseExecutor /\ ~sysAiAgent /\ ~whatsappBot
    /\ health.route = "/health"
    /\ health.status = "healthy"
    /\ health.isConnected = "true"
    /\ ~health.whatsapp /\ ~health.supabase /\ ~health.ai

\* C13: whenever the entry module is evaluated while the guard flag is set,
\* the process exits with code 0 and no field of the system or of its
\* adapter is assigned (no second system is constructed or initialized);
\* and every evaluation after the first finds the flag set, so at most one
\* system is ever starting or running in the process.
C13_SingleInstance ==
    [][evals' # evals =>
          /\ evals >= 1 => systemRunning
          /\ systemRunning =>
                /\ exitCode' = Exit(0)
                /\ UNCHANGED <<botVars, sysPc, whatsappBot, supabaseExecutor,
                               sysAiAgent, sysResponseFormatter, steps,
                               listening, lastError, systemRunning>>]_vars

C13_Witness ==
    /\ evals = 2
    /\ exitCode = Exit(0)
    /\ shutdowns = <<>>
    /\ sysPc \in {"awaitConnect", "awaitBotInit", "running"}
    /\ systemRunning

\* C14: every shutdown() that has run to its end has torn down the adapter
\* when it exists (destroy() was called), has cleared the guard flag and
\* has exited with code 0, whether destroy() resolved or rejected.
C14_AsStated ==
    \A i \in 1..Len(shutdowns) :
        shutdowns[i].pc = "done" =>
            /\ exitCode = Exit(0)
            /\ whatsappBot => shutdowns[i].destroy \in 1..Len(destroys)
            /\ ~systemRunning

\* C15: shutdown() is entered at most once per process and
\* whatsappBot.destroy() is invoked at most once, and no teardown is in
\* progress while initialize() is still awaiting a startup step.
C15_AsStated ==
    /\ Len(shutdowns) <= 1
    /\ Len(destroys) <= 1
    /\ \A c \in 1..Len(clients) : clients[c].destroyCalls <= 1
    /\ sysPc \in {"awaitConnect", "awaitBotInit"} =>
          \A i \in 1..Len(shutdowns) : shutdowns[i].pc # "awaitDestroy"

\* C16: the AI call of a handler is always preceded by its typing
\* indicator; and a finished handler of a non-self text message whose
\* calls all succeeded (adapter built with agent and formatter) has made
\* the calls getContact, getChat, sendStateTyping, AI, format, reply in
\* that order, with exactly one reply, which carries the formatter's
\* output when that is non-empty and the fixed fallback apology otherwise.
AllCallsOk(m) == \A k \in 1..Len(m.log) : m.log[k].st = "ok"

CallNames(m) == [k \in 1..Len(m.log) |-> m.log[k].call]

C16_HappyPath ==
    \A i \in 1..Len(msgs) :
        LET m == msgs[i] IN
        /\ \A k \in 1..Len(m.log) :
              m.log[k].call = "ai" =>
                  /\ k > 1
                  /\ m.log[k - 1].call = "sendStateTyping"
                  /\ m.log[k - 1].st = "ok"
        /\ (/\ aiAgent /\ responseFormatter
            /\ Done(m) /\ ~m.fromMe /\ m.type = "chat" /\ AllCallsOk(m)) =>
              /\ CallNames(m) = <<"getContact", "getChat", "sendStateTyping",
                                  "ai", "format", "reply">>
              /\ Len(Replies(m)) = 1
              /\ m.outcome = "resolved"
              /\ LET T == m.log[5].arg
                 IN  Replies(m)[1].arg = IF T # EmptyText THEN T ELSE FallbackText

C16_Witness ==
    /\ aiAgent /\ responseFormatter
    /\ \E i \in 1..Len(msgs) :
          /\ Done(msgs[i]) /\ ~msgs[i].fromMe /\ msgs[i].type = "chat"
          /\ AllCallsOk(msgs[i])
          /\ Calls(msgs[i], "format") # <<>>
          /\ Calls(msgs[i], "format")[1].arg = AiText(msgs[i].body)
          /\ Replies(msgs[i]) = <<[call |-> "reply", arg |-> AiText(msgs[i].body),
                                   st |-> "ok"]>>
    /\ \E j \in 1..Len(msgs) :
          /\ Done(msgs[j]) /\ ~msgs[j].fromMe /\ msgs[j].type = "chat"
          /\ AllCallsOk(msgs[j])
          /\ Calls(msgs[j], "format") # <<>>
          /\ Calls(msgs[j], "format")[1].arg = EmptyText
          /\ Replies(msgs[j])[1].arg = FallbackText

\* C17: a failed contact lookup, chat lookup or typing indicator is
\* followed at once by a reply attempt with the fixed error apology, a
\* failed AI call or formatting by a reply attempt with the fixed AI
\* apology; and every delivered message that is not self-authored
\* eventually has at least one message.reply attempt.
FailureAnswered(m) ==
    \A k \in 1..Len(m.log) :
        m.log[k].st = "fail" /\ m.log[k].call # "reply" =>
            /\ Len(m.log) > k
            /\ m.log[k + 1].call = "reply"
            /\ m.log[k + 1].arg =
                  IF m.log[k].call \in {"ai", "format"} THEN AiApology
                  ELSE ErrorApology

C17_EventuallyReplies ==
    /\ [](\A i \in 1..Len(msgs) : FailureAnswered(msgs[i]))
    /\ \A i \in 1..MaxFairMsgs :
          (Len(msgs) >= i /\ ~msgs[i].fromMe)
              ~> (Len(msgs) >= i /\ Replies(msgs[i]) # <<>>)

C17_Witness ==
    \E i \in 1..Len(msgs) :
        /\ ~msgs[i].fromMe
        /\ Done(msgs[i])
        /\ \E k \in 1..Len(msgs[i].log) :
              msgs[i].log[k].call = "sendStateTyping" /\ msgs[i].log[k].st = "fail"
        /\ Replies(msgs[i]) # <<>>
        /\ Replies(msgs[i])[1].arg = ErrorApology

\* C18: whatever the interleaving of the handlers, every call a handler
\* makes carries either a fixed text or a text made from its own message
\* (the AI is asked about that message's body and the reply carries the
\* answer to it); a step of one handler changes no other handler's record
\* and no field of the adapter; and the two fields handlers read (aiAgent,
\* responseFormatter) are never assigned while messages are handled.
OwnTexts(i) ==
    \A k \in 1..Len(msgs[i].log) :
        LET a == msgs[i].log[k].arg
        IN  /\ a.about \in {0, msgs[i].body}
            /\ a.kind \in {"ai", "body", "formatted"} => a.about = msgs[i].body
            /\ msgs[i].log[k].call = "ai" => a = Text("body", msgs[i].body)

C18_Independent ==
    /\ [](\A i \in 1..Len(msgs) : msgs[i].body = i /\ OwnTexts(i))
    /\ [][/\ aiAgent' = aiAgent
          /\ responseFormatter' = responseFormatter
          /\ \A i \in 1..Len(msgs) :
                msgs'[i] # msgs[i] =>
                    /\ UNCHANGED botVars
                    /\ Len(msgs') = Len(msgs)
                    /\ \A j \in 1..Len(msgs) : j # i => msgs'[j] = msgs[j]]_vars

C18_Witness ==
    /\ Len(msgs) = 2
    /\ msgs[1].pc = "awaitReply"
    /\ Replies(msgs[1]) = <<[call |-> "reply", arg |-> AiText(1), st |-> "pending"]>>
    /\ Done(msgs[2])
    /\ Calls(msgs[2], "sendStateTyping") # <<>>
    /\ Replies(msgs[2]) = <<[call |-> "reply", arg |-> Text("formatted", 2), st |-> "ok"]>>

\* C19: once a 'disconnected' event has been delivered, the ready flag is
\* false for as long as no later 'ready' event is delivered.
C19_AsStated == disconnected => ~isReady

\* C20: once a destroy() call has completed, the ready flag is false, and
\* a sendMessage called from then on returns false without invoking
\* client.sendMessage.
DestroyCompleted ==
    \E i \in 1..Len(destroys) :
        destroys[i].pc = "done" /\ destroys[i].outcome = "resolved"

C20_AsStated ==
    /\ [](DestroyCompleted => ~isReady)
    /\ [][DestroyCompleted /\ Len(sends') > Len(sends) =>
             /\ ~sends'[Len(sends')].invoked
             /\ sends'[Len(sends')].result = "false"]_vars

====
